---- MODULE Spec2Model ----
(***************************************************************************)
(* Head metadata of the blog: the theme's head({title, meta}) callback     *)
(* (src/theme.config.jsx) and the document shell Document()                *)
(* (src/pages/_document.js), driven by a sequence of page renders.         *)
(***************************************************************************)
EXTENDS Integers, Sequences, FiniteSets, TLC

\* Number of page renders followed in one behaviour.
MaxRenders == 2

\* ---------------------------------------------------------------------
\* JavaScript values that reach the callback
\* ---------------------------------------------------------------------

\* The JavaScript value `undefined` (a key absent from an object, a title
\* that was never resolved).
Undefined == "<undefined>"

\* Titles a page can resolve to, the missing ones included.
Titles == {Undefined, "", "Acme Dashboard", "My Post"}

\* Values of the front-matter keys the callback reads.
Descriptions == {"", "Real-time metrics"}
TagValues == {"", "frontend, microfrontend"}

FrontMatterKeys == {"description", "tag"}

KeyValues(k) == IF k = "description" THEN Descriptions ELSE TagValues

\* Front-matter objects: every subset of the keys may be present.
Metas ==
  UNION { { m \in [D -> Descriptions \cup TagValues] :
              \A k \in D : m[k] \in KeyValues(k) } : D \in SUBSET FrontMatterKeys }

\* obj.k in JavaScript: the value of the key, undefined when it is absent.
Prop(obj, k) == IF k \in DOMAIN obj THEN obj[k] ELSE Undefined

\* JavaScript truthiness of a string-or-undefined value.
Truthy(v) == v # Undefined /\ v # ""

\* A value the spec calls "non-empty": present and not the empty string.
NonEmpty(v) == Truthy(v)

\* ---------------------------------------------------------------------
\* src/theme.config.jsx
\* ---------------------------------------------------------------------

\* <meta name=key content=c /> and <meta property=key content=c />.
MetaName(key, c) == [kind |-> "name", key |-> key, content |-> c]
MetaProperty(key, c) == [kind |-> "property", key |-> key, content |-> c]

\* Line 13 with the guard taken from meta.description instead of meta.tag.
KeywordsChild_GuardedByDescription(meta) ==
  IF Truthy(Prop(meta, "description"))
  THEN << MetaName("keywords", Prop(meta, "tag")) >>
  ELSE << >>

\* Line 13 without its guard: the element is always a child.
KeywordsChild_Unguarded(meta) ==
  << MetaName("keywords", Prop(meta, "tag")) >>

\* {meta.tag && <meta name="keywords" content={meta.tag} />}: a falsy left
\* operand ("" or undefined) is the value of the expression and React renders
\* it as nothing; otherwise the element is the child.
KeywordsChild(meta) ==
  IF Truthy(Prop(meta, "tag"))
  THEN << MetaName("keywords", Prop(meta, "tag")) >>
  ELSE << >>

\* Lines 5-11 with twitter:title left out.
SeoBlock_NoTwitterTitle(title, meta) ==
  << MetaName("description", Prop(meta, "description")),
     MetaProperty("og:site_name", "Manxeguin Dev"),
     MetaProperty("og:description", Prop(meta, "description")),
     MetaProperty("og:title", title),
     MetaName("twitter:site", "Manxeguin Dev"),
     MetaName("twitter:description", Prop(meta, "description")) >>

\* Lines 5-11 with the document shell's Twitter handle in twitter:site.
SeoBlock_ShellTwitterSite(title, meta) ==
  << MetaName("description", Prop(meta, "description")),
     MetaProperty("og:site_name", "Manxeguin Dev"),
     MetaProperty("og:description", Prop(meta, "description")),
     MetaProperty("og:title", title),
     MetaName("twitter:site", "@yourname"),
     MetaName("twitter:title", title),
     MetaName("twitter:description", Prop(meta, "description")) >>

\* A description cut at its first nine characters.
Truncated(v) == IF v = "Real-time metrics" THEN "Real-time" ELSE v

\* Lines 5-11 with the social-card descriptions cut short.
SeoBlock_TruncatedDescription(title, meta) ==
  << MetaName("description", Prop(meta, "description")),
     MetaProperty("og:site_name", "Manxeguin Dev"),
     MetaProperty("og:description", Truncated(Prop(meta, "description"))),
     MetaProperty("og:title", title),
     MetaName("twitter:site", "Manxeguin Dev"),
     MetaName("twitter:title", title),
     MetaName("twitter:description", Truncated(Prop(meta, "description"))) >>

\* The seven <meta> elements of lines 5-11, emitted whatever meta holds.
SeoBlock(title, meta) ==
  << MetaName("description", Prop(meta, "description")),
     MetaProperty("og:site_name", "Manxeguin Dev"),
     MetaProperty("og:description", Prop(meta, "description")),
     MetaProperty("og:title", title),
     MetaName("twitter:site", "Manxeguin Dev"),
     MetaName("twitter:title", title),
     MetaName("twitter:description", Prop(meta, "description")) >>

\* head with the keywords child written above the seven elements.
head_KeywordsFirst(title, meta) ==
  KeywordsChild(meta) \o SeoBlock(title, meta)

\* head with the seven elements guarded by meta.description, as the keywords
\* child is guarded by meta.tag.
head_ConditionalSeo(title, meta) ==
  (IF Truthy(Prop(meta, "description")) THEN SeoBlock(title, meta) ELSE << >>)
  \o KeywordsChild(meta)

\* head with one more child, the post's date as article:published_time.
head_PublishedTime(title, meta) ==
  SeoBlock(title, meta) \o KeywordsChild(meta)
  \o (IF Truthy(Prop(meta, "date"))
      THEN << MetaProperty("article:published_time", Prop(meta, "date")) >>
      ELSE << >>)

\* head: ({ title, meta }) => <> ... </>, as the sequence of elements the
\* fragment renders.
head(title, meta) ==
  SeoBlock(title, meta) \o KeywordsChild(meta)

\* ---------------------------------------------------------------------
\* src/pages/_document.js
\* ---------------------------------------------------------------------

\* const meta = { title, description, image } inside Document().
DocumentMeta ==
  [ title |-> "Manxeguin Dev",
    description |-> "Blog about frontend",
    image |-> "https://assets.vercel.com/image/upload/q_auto/front/vercel/dps.png" ]

\* The <script> of line 25 without async.
AnalyticsScript_Blocking ==
  [ kind |-> "script",
    src |-> "https://analytics.ahrefs.com/analytics.js",
    dataKey |-> "u+KvGRKGKo1F4iIh3WqmoQ",
    async |-> FALSE ]

\* <script src=... data-key=... async />.
AnalyticsScript ==
  [ kind |-> "script",
    src |-> "https://analytics.ahrefs.com/analytics.js",
    dataKey |-> "u+KvGRKGKo1F4iIh3WqmoQ",
    async |-> TRUE ]

\* <Head> of Document() with the analytics script written a second time.
DocumentHead_TwoScripts ==
  << MetaName("robots", "follow, index"),
     MetaName("description", DocumentMeta.description),
     MetaProperty("og:site_name", DocumentMeta.title),
     MetaProperty("og:description", DocumentMeta.description),
     MetaProperty("og:title", DocumentMeta.title),
     MetaProperty("og:image", DocumentMeta.image),
     MetaName("twitter:card", "summary_large_image"),
     MetaName("twitter:site", "@yourname"),
     MetaName("twitter:title", DocumentMeta.title),
     MetaName("twitter:description", DocumentMeta.description),
     MetaName("twitter:image", DocumentMeta.image),
     AnalyticsScript,
     AnalyticsScript >>

\* The children of <Head> in Document(), in source order.
DocumentHead ==
  << MetaName("robots", "follow, index"),
     MetaName("description", DocumentMeta.description),
     MetaProperty("og:site_name", DocumentMeta.title),
     MetaProperty("og:description", DocumentMeta.description),
     MetaProperty("og:title", DocumentMeta.title),
     MetaProperty("og:image", DocumentMeta.image),
     MetaName("twitter:card", "summary_large_image"),
     MetaName("twitter:site", "@yourname"),
     MetaName("twitter:title", DocumentMeta.title),
     MetaName("twitter:description", DocumentMeta.description),
     MetaName("twitter:image", DocumentMeta.image),
     AnalyticsScript >>

\* ---------------------------------------------------------------------
\* Page renders
\* ---------------------------------------------------------------------

\* Requests rendered at the same time.
MaxInflight == 2
Requests == 1..MaxInflight

\* The two orders in which a <Head> can write the shell's and the page's
\* elements.
HeadOrders == {"shell-first", "page-first"}

\* A request whose render has not started.
IdleRequest ==
  [ pc |-> "idle", title |-> Undefined, meta |-> [ k \in {} |-> "" ],
    tags |-> << >>, shell |-> << >>, head |-> << >> ]

VARIABLES
  pc,         \* position of the current render
  pageTitle,  \* title handed to head
  pageMeta,   \* front-matter object handed to head
  tags,       \* what head returned for the current page
  outcome,    \* "none" before head ran, then "ok" or "error"
  shell,      \* what Document() put in <Head> for the current page
  calls,      \* the calls of head so far: inputs and result of each
  renders,    \* pages rendered so far
  documents,  \* what Document() returned in each render so far
  finalHead,  \* the <head> of the current page: shell and page elements
  response,   \* the <head> serialized into the current page's response
  scriptLoad, \* the browser's load of the current page's analytics script
  headOrder,  \* which elements the installed <Head> writes first
  inflight    \* renders going on at the same time, one per request

vars == << pc, pageTitle, pageMeta, tags, outcome, shell, calls, renders,
           documents, finalHead, response, scriptLoad, headOrder, inflight >>

Init ==
  /\ pc = "idle"
  /\ pageTitle = Undefined
  /\ pageMeta = [ k \in {} |-> "" ]
  /\ tags = << >>
  /\ outcome = "none"
  /\ shell = << >>
  /\ calls = << >>
  /\ renders = 0
  /\ documents = << >>
  /\ finalHead = << >>
  /\ response = << >>
  /\ scriptLoad = "none"
  /\ headOrder \in HeadOrders
  /\ inflight = [ r \in Requests |-> IdleRequest ]

\* The framework resolves the page's title and front-matter.
ResolveFrontMatter ==
  /\ pc = "idle"
  /\ renders < MaxRenders
  /\ \E t \in Titles, m \in Metas :
       /\ pageTitle' = t
       /\ pageMeta' = m
  /\ pc' = "resolved"
  /\ tags' = << >>
  /\ outcome' = "none"
  /\ shell' = << >>
  /\ finalHead' = << >>
  /\ response' = << >>
  /\ scriptLoad' = "none"
  /\ UNCHANGED << calls, renders, documents,
                  headOrder, inflight >>

\* CallHead with a required description: a front-matter without one is
\* rejected instead of rendered.
CallHead_RequiresDescription ==
  /\ pc = "resolved"
  /\ IF Prop(pageMeta, "description") = Undefined
     THEN /\ tags' = << >>
          /\ outcome' = "error"
     ELSE /\ tags' = head(pageTitle, pageMeta)
          /\ outcome' = "ok"
  /\ calls' = Append(calls, [ title |-> pageTitle, meta |-> pageMeta,
                              tags |-> tags' ])
  /\ pc' = "composed"
  /\ UNCHANGED << pageTitle, pageMeta, shell, renders, documents, finalHead,
                  response, scriptLoad,
                  headOrder, inflight >>

\* CallHead with the elements pushed onto a module-level array that is never
\* cleared: a call returns the earlier calls' elements too.
CallHead_SharedArray ==
  /\ pc = "resolved"
  /\ tags' = (IF calls = << >> THEN << >> ELSE calls[Len(calls)].tags)
               \o head(pageTitle, pageMeta)
  /\ outcome' = "ok"
  /\ calls' = Append(calls, [ title |-> pageTitle, meta |-> pageMeta,
                              tags |-> tags' ])
  /\ pc' = "composed"
  /\ UNCHANGED << pageTitle, pageMeta, shell, renders, documents, finalHead,
                  response, scriptLoad,
                  headOrder, inflight >>

\* The theme calls head({title, meta}). The arrow function validates nothing
\* and has no throw; reading a key of an object never throws, so the call
\* always returns its fragment.
CallHead ==
  /\ pc = "resolved"
  /\ tags' = head(pageTitle, pageMeta)
  /\ outcome' = "ok"
  /\ calls' = Append(calls, [ title |-> pageTitle, meta |-> pageMeta,
                              tags |-> head(pageTitle, pageMeta) ])
  /\ pc' = "composed"
  /\ UNCHANGED << pageTitle, pageMeta, shell, renders, documents, finalHead,
                  response, scriptLoad,
                  headOrder, inflight >>

\* Document() with the page's title passed down to it and used as og:title.
RenderDocument_ReadsPage ==
  /\ pc = "composed"
  /\ shell' = [ DocumentHead EXCEPT ![5] = MetaProperty("og:title", pageTitle) ]
  /\ documents' = Append(documents, shell')
  /\ pc' = "documented"
  /\ UNCHANGED << pageTitle, pageMeta, tags, outcome, calls, renders, finalHead,
                  response, scriptLoad,
                  headOrder, inflight >>

\* The framework renders Document() around the page: the children of its
\* <Head> are literals and the fields of its local meta, the same for every
\* page.
RenderDocument ==
  /\ pc = "composed"
  /\ shell' = DocumentHead
  /\ documents' = Append(documents, shell')
  /\ pc' = "documented"
  /\ UNCHANGED << pageTitle, pageMeta, tags, outcome, calls, renders, finalHead,
                  response, scriptLoad,
                  headOrder, inflight >>

\* A merge in which a page element replaces the shell element of the same
\* key.
MergeHead_Override(shellTags, pageTags) ==
  LET kept == SelectSeq(shellTags,
                LAMBDA e : \/ e.kind = "script"
                           \/ \A i \in 1..Len(pageTags) : pageTags[i].key # e.key)
  IN  IF headOrder = "shell-first" THEN kept \o pageTags ELSE pageTags \o kept

\* <Head> of _document.js line 13: Document() hands it the shell's elements as
\* children and neither Document() nor head gives an element a key or looks at
\* the other's elements, so the <head> holds the elements of both. Which of
\* the two groups is written first depends on the installed <Head>.
MergeHead(shellTags, pageTags) ==
  IF headOrder = "shell-first" THEN shellTags \o pageTags
                               ELSE pageTags \o shellTags

\* The <head> of the page is put together.
MergeHeadTags ==
  /\ pc = "documented"
  /\ finalHead' = MergeHead(shell, tags)
  /\ pc' = "merged"
  /\ UNCHANGED << pageTitle, pageMeta, tags, outcome, shell, calls, renders,
                  documents, response, scriptLoad,
                  headOrder, inflight >>

\* The <head> is serialized into the response; the render is over.
Serialize ==
  /\ pc = "merged"
  /\ response' = finalHead
  /\ renders' = renders + 1
  /\ pc' = "served"
  /\ UNCHANGED << pageTitle, pageMeta, tags, outcome, shell, calls, documents,
                  finalHead, scriptLoad,
                  headOrder, inflight >>

\* The <script> elements of a <head>.
Scripts(h) == { i \in 1..Len(h) : h[i].kind = "script" }

\* The browser parses the <head> of the response and starts to fetch its
\* script.
BrowserFetchScript ==
  /\ pc = "served"
  /\ scriptLoad' = (IF Scripts(response) # {} THEN "loading" ELSE "none")
  /\ pc' = "parsed"
  /\ UNCHANGED << pageTitle, pageMeta, tags, outcome, shell, calls, renders,
                  documents, finalHead, response,
                  headOrder, inflight >>

\* The browser goes on to the <body> and shows the page. A script without
\* async holds the parser until its fetch has ended; one with async does
\* not.
BrowserShowPage ==
  /\ pc = "parsed"
  /\ \A i \in Scripts(response) :
       response[i].async \/ scriptLoad \in {"loaded", "failed"}
  /\ pc' = "idle"
  /\ UNCHANGED << pageTitle, pageMeta, tags, outcome, shell, calls, renders,
                  documents, finalHead, response, scriptLoad,
                  headOrder, inflight >>

\* The fetch of the script ends: the script arrived, or the network or an
\* ad-blocker refused it. It may also never end.
ScriptLoaded ==
  /\ scriptLoad = "loading"
  /\ scriptLoad' = "loaded"
  /\ UNCHANGED << pc, pageTitle, pageMeta, tags, outcome, shell, calls, renders,
                  documents, finalHead, response,
                  headOrder, inflight >>

ScriptFailed ==
  /\ scriptLoad = "loading"
  /\ scriptLoad' = "failed"
  /\ UNCHANGED << pc, pageTitle, pageMeta, tags, outcome, shell, calls, renders,
                  documents, finalHead, response,
                  headOrder, inflight >>

Next ==
  \/ ResolveFrontMatter
  \/ CallHead
  \/ RenderDocument
  \/ MergeHeadTags
  \/ Serialize
  \/ BrowserFetchScript
  \/ BrowserShowPage
  \/ ScriptLoaded
  \/ ScriptFailed

\* -- Front-matter with the keys head does not read ---------------------

\* The other keys of the posts' front-matter, and a key no post has.
OtherKeys == {"date", "draft"}
OtherValue(k) == IF k = "date" THEN "2024/7/30" ELSE "true"

\* Front-matter objects with any of the other keys beside description and
\* tag.
FullMetas ==
  { [ k \in D |-> IF k = "description" THEN "Real-time metrics"
                  ELSE IF k = "tag" THEN "frontend, microfrontend"
                  ELSE OtherValue(k) ] : D \in SUBSET (FrontMatterKeys \cup OtherKeys) }

\* The framework resolves a post whose front-matter has other keys too.
ResolveFullFrontMatter ==
  /\ pc = "idle"
  /\ renders < MaxRenders
  /\ \E t \in {"Acme Dashboard", "My Post"}, m \in FullMetas :
       /\ pageTitle' = t
       /\ pageMeta' = m
  /\ pc' = "resolved"
  /\ tags' = << >>
  /\ outcome' = "none"
  /\ shell' = << >>
  /\ finalHead' = << >>
  /\ response' = << >>
  /\ scriptLoad' = "none"
  /\ UNCHANGED << calls, renders, documents, headOrder, inflight >>

NextOtherKeys ==
  \/ ResolveFullFrontMatter
  \/ CallHead
  \/ RenderDocument
  \/ MergeHeadTags
  \/ Serialize
  \/ BrowserFetchScript
  \/ BrowserShowPage
  \/ ScriptLoaded
  \/ ScriptFailed

SpecOtherKeys == Init /\ [][NextOtherKeys]_vars

\* -- Renders of several requests at the same time ----------------------

\* The pages requested at the same time.
InflightMetas ==
  { [ k \in D |-> IF k = "description" THEN "Real-time metrics"
                  ELSE "frontend, microfrontend" ] : D \in SUBSET FrontMatterKeys }

mainVars == << pc, pageTitle, pageMeta, tags, outcome, shell, calls, renders,
              documents, finalHead, response, scriptLoad, headOrder >>

\* The framework resolves the front-matter of request r.
StartRender(r) ==
  /\ inflight[r].pc = "idle"
  /\ \E t \in {"Acme Dashboard", "My Post"}, m \in InflightMetas :
       inflight' = [ inflight EXCEPT ![r].title = t, ![r].meta = m,
                                     ![r].pc = "resolved" ]
  /\ UNCHANGED mainVars

\* head called for request r, its elements pushed onto an array of the
\* module that the other requests' calls push onto as well.
HeadFor_SharedArray(r) ==
  /\ inflight[r].pc = "resolved"
  /\ LET others == { q \in Requests : q # r /\ inflight[q].tags # << >> }
         earlier == IF others = {} THEN << >>
                    ELSE inflight[CHOOSE q \in others : TRUE].tags
     IN  inflight' = [ inflight EXCEPT
                         ![r].tags = earlier \o head(inflight[r].title, inflight[r].meta),
                         ![r].pc = "composed" ]
  /\ UNCHANGED mainVars

\* The theme calls head({title, meta}) for request r: the call reads its
\* two arguments and nothing else.
HeadFor(r) ==
  /\ inflight[r].pc = "resolved"
  /\ inflight' = [ inflight EXCEPT
                     ![r].tags = head(inflight[r].title, inflight[r].meta),
                     ![r].pc = "composed" ]
  /\ UNCHANGED mainVars

\* Document() rendered for request r: its meta is a const local to the call.
DocumentFor(r) ==
  /\ inflight[r].pc = "composed"
  /\ inflight' = [ inflight EXCEPT ![r].shell = DocumentHead,
                                   ![r].pc = "documented" ]
  /\ UNCHANGED mainVars

\* The <head> of request r is put together and its render ends.
FinishRender(r) ==
  /\ inflight[r].pc = "documented"
  /\ inflight' = [ inflight EXCEPT
                     ![r].head = MergeHead(inflight[r].shell, inflight[r].tags),
                     ![r].pc = "done" ]
  /\ UNCHANGED mainVars

NextInterleaved ==
  \E r \in Requests :
    \/ StartRender(r)
    \/ HeadFor(r)
    \/ DocumentFor(r)
    \/ FinishRender(r)

SpecInterleaved == Init /\ [][NextInterleaved]_vars

Spec == Init /\ [][Next]_vars

\* ---------------------------------------------------------------------
\* Properties
\* ---------------------------------------------------------------------

\* head has returned for the current page.
HeadReturned == outcome # "none"

pageDescription == Prop(pageMeta, "description")
pageTag == Prop(pageMeta, "tag")

\* The keys and kinds of the seven description-dependent tags, in order.
SeoKeys ==
  << "description", "og:site_name", "og:description", "og:title",
     "twitter:site", "twitter:title", "twitter:description" >>
SeoKinds ==
  << "name", "property", "property", "property", "name", "name", "name" >>

Positions(s, k) == { i \in 1..Len(s) : s[i].kind # "script" /\ s[i].key = k }
HasKey(s, k) == Positions(s, k) # {}
OnlyOne(s, k, c) ==
  /\ Cardinality(Positions(s, k)) = 1
  /\ \A i \in Positions(s, k) : s[i].content = c

\* C1: with an empty description (absent or ""), head returns none of the
\* seven description-dependent tags.
C1_NoSeoTagsWithoutDescription ==
  (HeadReturned /\ ~NonEmpty(pageDescription))
    => \A i \in 1..Len(SeoKeys) : ~HasKey(tags, SeoKeys[i])

\* C2 as stated: with a non-empty title and a non-empty description head
\* returns exactly 7 tags, one og:title and one twitter:title among them, each
\* with the title as content.
C2_ExactlySevenTags ==
  (HeadReturned /\ NonEmpty(pageTitle) /\ NonEmpty(pageDescription))
    => /\ Len(tags) = 7
       /\ OnlyOne(tags, "og:title", pageTitle)
       /\ OnlyOne(tags, "twitter:title", pageTitle)

\* C2 as amended: with a non-empty title and a non-empty description head
\* returns exactly 7 tags when the tag is empty and exactly 8, the eighth being
\* keywords, when the tag is non-empty; one og:title and one twitter:title are
\* among them, each with the title as content.
C2_SevenTagsPlusKeywords ==
  (HeadReturned /\ NonEmpty(pageTitle) /\ NonEmpty(pageDescription))
    => /\ Len(tags) = (IF NonEmpty(pageTag) THEN 8 ELSE 7)
       /\ NonEmpty(pageTag) => tags[8].key = "keywords"
       /\ OnlyOne(tags, "og:title", pageTitle)
       /\ OnlyOne(tags, "twitter:title", pageTitle)

C2_Witness ==
  /\ HeadReturned
  /\ NonEmpty(pageTitle) /\ NonEmpty(pageDescription) /\ NonEmpty(pageTag)
  /\ Len(tags) = 8

\* C3: with a non-empty description the seven description-dependent tags come
\* first, in the order and with the kinds of lines 5-11, and a keywords tag,
\* when there is one, comes after all seven.
C3_SeoOrderAndKinds ==
  (HeadReturned /\ NonEmpty(pageDescription))
    => /\ Len(tags) >= 7
       /\ \A i \in 1..7 : tags[i].key = SeoKeys[i] /\ tags[i].kind = SeoKinds[i]
       /\ \A i \in Positions(tags, "keywords") : i > 7

C3_Witness ==
  /\ HeadReturned
  /\ NonEmpty(pageDescription)
  /\ HasKey(tags, "keywords")
  /\ tags[1].key = "description"

\* C4: with a non-empty tag, whatever the description, head returns exactly
\* one keywords tag, of kind name, whose content is the tag unchanged.
C4_OneKeywordsTag ==
  (HeadReturned /\ NonEmpty(pageTag))
    => /\ OnlyOne(tags, "keywords", pageTag)
       /\ \A i \in Positions(tags, "keywords") : tags[i].kind = "name"

C4_Witness ==
  /\ HeadReturned
  /\ pageTag = "frontend, microfrontend"
  /\ ~NonEmpty(pageDescription)
  /\ HasKey(tags, "keywords")

\* C5: with an empty tag (absent or ""), whatever the description, head
\* returns no keywords tag.
C5_NoKeywordsWithoutTag ==
  (HeadReturned /\ ~NonEmpty(pageTag)) => ~HasKey(tags, "keywords")

C5_Witness ==
  /\ HeadReturned
  /\ pageTag = ""
  /\ NonEmpty(pageDescription)
  /\ Len(tags) = 7

\* C6: for every title and every meta, description and tag present or not,
\* what head returns has an og:title and a twitter:title whose content is the
\* page's title.
C6_TitleAlwaysAppears ==
  HeadReturned
    => /\ \E i \in Positions(tags, "og:title") : tags[i].content = pageTitle
       /\ \E i \in Positions(tags, "twitter:title") : tags[i].content = pageTitle

C6_Witness ==
  /\ HeadReturned
  /\ pageMeta = [ k \in {} |-> "" ]
  /\ pageTitle = "My Post"
  /\ HasKey(tags, "og:title")

\* C7: with a missing title (undefined or "") the render ends in a
\* configuration error and head returns no tags.
C7_MissingTitleIsError ==
  (HeadReturned /\ ~NonEmpty(pageTitle))
    => /\ outcome = "error"
       /\ tags = << >>

\* C8: with a non-empty title, no combination of present and absent
\* description and tag is an error: head returns its tag sequence.
C8_OptionalFieldsAreNotErrors ==
  (HeadReturned /\ NonEmpty(pageTitle))
    => /\ outcome = "ok"
       /\ Len(tags) >= 7

C8_Witness ==
  /\ HeadReturned
  /\ NonEmpty(pageTitle)
  /\ DOMAIN pageMeta = {}
  /\ outcome = "ok"

\* C9: two calls of head with the same title and the same meta, whenever they
\* happen, return the same sequence of tags.
C9_Deterministic ==
  \A i, j \in 1..Len(calls) :
    (calls[i].title = calls[j].title /\ calls[i].meta = calls[j].meta)
      => calls[i].tags = calls[j].tags

C9_Witness ==
  /\ Len(calls) = 2
  /\ calls[1].title = calls[2].title
  /\ calls[1].meta = calls[2].meta
  /\ Len(calls[2].tags) = 8

\* C10: head("Acme Dashboard", {description: "Real-time metrics", tag: ""})
\* returns exactly the seven tags of the example and no keywords; for every
\* input og:site_name and twitter:site are present once with "Manxeguin Dev".
C10_AcmeDashboardExample ==
  /\ ( /\ HeadReturned
       /\ pageTitle = "Acme Dashboard"
       /\ pageDescription = "Real-time metrics"
       /\ pageTag = "" )
       => tags = << MetaName("description", "Real-time metrics"),
                    MetaProperty("og:site_name", "Manxeguin Dev"),
                    MetaProperty("og:description", "Real-time metrics"),
                    MetaProperty("og:title", "Acme Dashboard"),
                    MetaName("twitter:site", "Manxeguin Dev"),
                    MetaName("twitter:title", "Acme Dashboard"),
                    MetaName("twitter:description", "Real-time metrics") >>
  /\ HeadReturned
       => /\ OnlyOne(tags, "og:site_name", "Manxeguin Dev")
          /\ OnlyOne(tags, "twitter:site", "Manxeguin Dev")

C10_Witness ==
  /\ HeadReturned
  /\ pageTitle = "Acme Dashboard"
  /\ pageDescription = "Real-time metrics"
  /\ pageTag = ""
  /\ Len(tags) = 7


\* C11: head("My Post", {description: "", tag: "frontend, microfrontend"})
\* returns the single tag keywords="frontend, microfrontend"; in general an
\* empty description with a non-empty tag gives the keywords tag and nothing
\* else.
C11_OnlyKeywords ==
  (HeadReturned /\ ~NonEmpty(pageDescription) /\ NonEmpty(pageTag))
    => tags = << MetaName("keywords", pageTag) >>

\* The response of the current page has been produced.
Served == response # << >>

\* The browser shows the current page.
Shown == pc = "idle" /\ Served

\* C12: the <head> of every response, whatever the page's title, description
\* and tag, holds the robots tag with content "follow, index" and exactly one
\* script element, the analytics script with its URL, its key and async.
C12_RobotsAndOneScript ==
  Served
    => /\ \E i \in Positions(response, "robots") :
            response[i] = [ kind |-> "name", key |-> "robots",
                            content |-> "follow, index" ]
       /\ Cardinality(Scripts(response)) = 1
       /\ \A i \in Scripts(response) :
            /\ response[i].src = "https://analytics.ahrefs.com/analytics.js"
            /\ response[i].dataKey = "u+KvGRKGKo1F4iIh3WqmoQ"
            /\ response[i].async

C12_Witness ==
  /\ Served
  /\ ~NonEmpty(pageTitle) /\ ~NonEmpty(pageDescription) /\ NonEmpty(pageTag)
  /\ HasKey(response, "robots")
  /\ Scripts(response) # {}

\* C13: the load of the analytics script is fire-and-forget. While it is
\* pending, and for ever if it never ends, the browser can go on and show the
\* page; whether it is pending, succeeded or failed, the page shown has the
\* head that was rendered and no error outcome.
C13_ScriptLoadIsFireAndForget ==
  /\ pc = "parsed" => ENABLED BrowserShowPage
  /\ (Served /\ scriptLoad \in {"loading", "loaded", "failed"})
       => /\ outcome = "ok"
          /\ response = finalHead
          /\ finalHead = MergeHead(shell, tags)

C13_Witness ==
  /\ Shown
  /\ scriptLoad = "loading"
  /\ outcome = "ok"

\* C14: in the final head per-page tags override the shell's defaults: none
\* of the seven keys occurs more than once, and where the shell and the page
\* both supply a key the content present is the page's.
C14_PageTagsOverrideShell ==
  Served
    => \A n \in 1..Len(SeoKeys) :
         /\ Cardinality(Positions(response, SeoKeys[n])) <= 1
         /\ (HasKey(shell, SeoKeys[n]) /\ HasKey(tags, SeoKeys[n]))
              => \A i \in Positions(response, SeoKeys[n]) :
                   \E j \in Positions(tags, SeoKeys[n]) :
                     response[i].content = tags[j].content

\* C15: what Document() returns does not depend on the page: any two renders,
\* whatever their titles, descriptions and tags, got the same sequence of
\* shell elements.
C15_ShellIndependentOfPage ==
  \A i, j \in 1..Len(documents) : documents[i] = documents[j]

C15_Witness ==
  /\ Len(documents) = 2
  /\ Len(calls) = 2
  /\ calls[1].title # calls[2].title
  /\ Prop(calls[1].meta, "description") # Prop(calls[2].meta, "description")
  /\ Prop(calls[1].meta, "tag") # Prop(calls[2].meta, "tag")
  /\ documents[1] = documents[2]

\* C16: values pass through head unchanged: every description,
\* og:description and twitter:description it returns has the description it
\* received as content, and every og:title and twitter:title the title it
\* received.
C16_ValuesPassThrough ==
  HeadReturned
    => /\ \A k \in {"description", "og:description", "twitter:description"} :
            \A i \in Positions(tags, k) : tags[i].content = pageDescription
       /\ \A k \in {"og:title", "twitter:title"} :
            \A i \in Positions(tags, k) : tags[i].content = pageTitle

C16_Witness ==
  /\ HeadReturned
  /\ pageDescription = "Real-time metrics"
  /\ pageTitle = "Acme Dashboard"
  /\ \E i \in Positions(tags, "twitter:description") :
       tags[i].content = "Real-time metrics"

C20_SiteConstantsAgree ==
  Served
    => \A k \in {"og:site_name", "twitter:site"} :
         \A i, j \in Positions(response, k) :
           response[i].content = response[j].content

\* C17: what head returns depends on the title, the description and the tag
\* alone: two calls that agree on the three return the same tags, whatever
\* other keys (date, an unrecognized key) their front-matter has.
C17_OtherKeysIgnored ==
  \A i, j \in 1..Len(calls) :
    ( /\ calls[i].title = calls[j].title
      /\ Prop(calls[i].meta, "description") = Prop(calls[j].meta, "description")
      /\ Prop(calls[i].meta, "tag") = Prop(calls[j].meta, "tag") )
      => calls[i].tags = calls[j].tags

C17_Witness ==
  /\ Len(calls) = 2
  /\ calls[1].title = calls[2].title
  /\ Prop(calls[1].meta, "description") = Prop(calls[2].meta, "description")
  /\ Prop(calls[1].meta, "tag") = Prop(calls[2].meta, "tag")
  /\ DOMAIN calls[1].meta = {"description", "tag"}
  /\ DOMAIN calls[2].meta = {"description", "tag", "date", "draft"}
  /\ calls[1].tags = calls[2].tags

\* The head a page gets when it is the only one rendered.
RenderedAlone(title, meta) ==
  IF headOrder = "shell-first" THEN DocumentHead \o head(title, meta)
                               ELSE head(title, meta) \o DocumentHead

\* C18: renders share no mutable state. A render never changes its title or
\* its meta, and in every interleaving of the renders of several requests the
\* head of each finished render is the head its page gets when rendered alone.
C18_RendersAreIndependent ==
  /\ [](\A r \in Requests :
          inflight[r].pc = "done"
            => inflight[r].head = RenderedAlone(inflight[r].title, inflight[r].meta))
  /\ [][\A r \in Requests :
          inflight[r].pc # "idle"
            => /\ inflight'[r].title = inflight[r].title
               /\ inflight'[r].meta = inflight[r].meta]_vars

C18_Witness ==
  /\ inflight[1].pc = "composed"
  /\ inflight[2].pc = "done"
  /\ inflight[1].title # inflight[2].title
  /\ inflight[1].meta # inflight[2].meta
  /\ Len(inflight[2].head) = Len(DocumentHead) + 8

====
